---- MODULE Spec2Model ----
(***************************************************************************)
(* Model of plugins/ticket_branch.py (TicketBranch): the merge-status      *)
(* evaluation of a ticket's branch against the develop branch              *)
(* (filter_stream, _get_cache, _set_cache, _create_table, _drop_table,     *)
(* _merge), run by concurrent request handlers over one shared             *)
(* merge_store table and one shared git repository; and the list of new    *)
(* commits that validate_ticket appends to a ticket comment (log_table).   *)
(***************************************************************************)
EXTENDS Integers, Sequences, FiniteSets, TLC

VARIABLES
    master,      \* commit the develop branch points to (master_sha1)
    refMoves,    \* number of times develop has moved so far
    branches,    \* branch name -> commit (0: no such branch)
    objects,     \* preview commits written to the main repository
    tableExists, \* whether the merge_store table exists
    rows,        \* rows of merge_store: [base, target, tmp]
    pc,          \* position of each request handler
    tgt,         \* handler's resolved branch commit (branch.hex)
    base,        \* handler's `base` read by the SELECT of _get_cache
    tmp,         \* handler's `tmp`
    head,        \* HEAD of the handler's temporary clone (0: none)
    exc,         \* exception raised inside _merge ("none" if none)
    tmpdir,      \* whether the handler's temporary directory exists
    result,      \* what filter_stream returned (or raised)
    looked,      \* names the handler has handed to lookup_branch
    histOn,      \* whether the history variables are recorded
    lastRes,     \* history: the status last returned since develop moved
    seenRes,     \* history: lastRes for the handler's target when it started
    tpc,         \* position of the ticket request
    ticket,      \* the ticket handed to validate_ticket: [branch, commit]
    req,         \* req.args: [preview, id, comment]
    call,        \* arguments of the last call of log_table
    table        \* what that call returned

ticketVars == <<tpc, ticket, req, call, table>>

vars == <<master, refMoves, branches, objects, tableExists, rows, pc, tgt,
          base, tmp, head, exc, tmpdir, result, looked, histOn,
          lastRes, seenRes, ticketVars>>

repoVars == <<master, refMoves, branches, histOn>>

evalVars == <<objects, tableExists, rows, pc, tgt, base, tmp, head, exc,
              tmpdir, result, looked, lastRes, seenRes>>

(***************************************************************************)
(* Bounds and the fixed part of the repository.                            *)
(***************************************************************************)
MaxRefMoves == 1

\* moves of develop while the history variables are recorded
HistMaxRefMoves == 1

\* commits on the line of the ticket branch after commit 4
MaxChain == 15

Workers == {"w1", "w2"}

\* import times of the processes serving requests (TRAC_SIGNATURE)
SigTimes == {1, 2}

\* The commit graph: 1 <- 2 <- 3 <- 5 is the develop line (develop starts
\* at 2), 4 branches off 1 and 4 <- 6 <- 7 <- ... is the line of the ticket
\* branch, into which commit 9 merges commit 3 of develop.  Commits are
\* numbered in the order of their commit times.
Commits == 1 .. (5 + MaxChain)

Parents(c) ==
    CASE c = 1 -> {}
      [] c = 2 -> {1}
      [] c = 3 -> {2}
      [] c = 4 -> {1}
      [] c = 5 -> {3}
      [] c = 6 -> {4}
      [] c = 9 -> {8, 3}
      [] OTHER -> {c - 1}

\* the commits the ticket branch is pushed to
TicketLine == {4} \cup (6 .. (5 + MaxChain))

RefLine == <<2, 3, 5>>

\* pairs (HEAD, branch) whose three-way merge leaves conflicts in the index
Conflicts == {<<3, 4>>, <<5, 4>>}

RECURSIVE Ancestors(_)
Ancestors(c) == {c} \cup UNION {Ancestors(p) : p \in Parents(c)}

IsAncestor(a, b) == a \in Ancestors(b)

\* the ancestors of every commit, itself included
AncestorSets == [c \in Commits |-> Ancestors(c)]

MergeBase(a, b) ==
    LET common == Ancestors(a) \cap Ancestors(b)
    IN  CHOOSE c \in common : \A d \in common : d \in Ancestors(c)

(***************************************************************************)
(* Branch names are sequences of characters.                               *)
(***************************************************************************)
Names ==
    { <<>>, <<"a">>, <<"n">>, <<" ", "a", " ">>, <<" ">>,
      <<"a", ".", ".", "b">> }

IsSpace(ch) == ch = " "

RECURSIVE LStrip(_)
LStrip(s) == IF s # <<>> /\ IsSpace(Head(s)) THEN LStrip(Tail(s)) ELSE s

RECURSIVE RStrip(_)
RStrip(s) ==
    IF s # <<>> /\ IsSpace(s[Len(s)])
    THEN RStrip(SubSeq(s, 1, Len(s) - 1))
    ELSE s

Strip(s) == RStrip(LStrip(s))

\* RefNameValidator.IsValidName
HasSub(s, sub) ==
    \E i \in 1 .. Len(s) :
        i + Len(sub) - 1 <= Len(s) /\ SubSeq(s, i, i + Len(sub) - 1) = sub

EndsWith(s, suf) ==
    Len(suf) <= Len(s) /\ SubSeq(s, Len(s) - Len(suf) + 1, Len(s)) = suf

ForbiddenChars == {" ", "DEL", "~", "^", ":", "?", "*", "[", "\\"}

IsValidName(name) ==
    /\ name # <<>>
    /\ name[1] # "."
    /\ ~HasSub(name, <<"/", ".">>)
    /\ ~HasSub(name, <<".", ".">>)
    /\ name[1] # "/"
    /\ ~HasSub(name, <<"/", "/">>)
    /\ ~HasSub(name, <<"@", "{">>)
    /\ \A i \in 1 .. Len(name) : name[i] \notin ForbiddenChars
    /\ ~EndsWith(name, <<".", "l", "o", "c", "k">>)
    /\ ~EndsWith(name, <<"/">>)
    /\ ~EndsWith(name, <<".">>)

BranchNames == {<<"a">>, <<"n">>}

LookupBranch(name) ==
    IF name \in BranchNames THEN branches[name] ELSE 0

(***************************************************************************)
(* Merge statuses.                                                         *)
(***************************************************************************)
St(k) == [k |-> k, r |-> 0, t |-> 0, s |-> 0]

None == St("None")
GIT_FASTFORWARD == St("GIT_FASTFORWARD")
GIT_UPTODATE == St("GIT_UPTODATE")
GIT_FAILED_MERGE == St("GIT_FAILED_MERGE")
GIT_SPECIAL_MERGES == {GIT_FASTFORWARD, GIT_UPTODATE, GIT_FAILED_MERGE}

\* the commit written by create_commit: parents [r, t], signature time s
Preview(r, t, s) == [k |-> "commit", r |-> r, t |-> t, s |-> s]

IsCommit(x) == x.k = "commit"
IsStatus(x) == x \in GIT_SPECIAL_MERGES \/ IsCommit(x)

IsGitError(e) == e \in {"conflict", "vcs"}

master_sha1 == master

\* history records: status `res` was returned for target commit `t`, read
\* from the cache (`hit`) or computed by _merge; lastRes follows one target
\* between two moves of develop and keeps a preview once it was read back
Hist(t, res, hit) == [t |-> t, res |-> res, hit |-> hit]
NoHist == Hist(0, None, FALSE)
\* the history of a handler during whose evaluation develop moved
Moved == Hist(0, St("Moved"), FALSE)
HistOf(h, t) == IF h.t = t THEN h ELSE NoHist

\* no ticket request is being served
NoTicket == [branch |-> <<>>, commit |-> <<>>]
NoRequest == [preview |-> FALSE, id |-> FALSE, comment |-> <<>>]
NoCall ==
    [called |-> FALSE, new_commit |-> <<>>, limit |-> 0, ignore |-> {},
     raised |-> FALSE]

InitCore ==
    /\ master = RefLine[1]
    /\ refMoves = 0
    /\ branches = [n \in BranchNames |-> IF n = <<"a">> THEN 4 ELSE 0]
    /\ objects = {}
    /\ tableExists = FALSE
    /\ rows = {}
    /\ pc = [w \in Workers |-> "idle"]
    /\ tgt = [w \in Workers |-> 0]
    /\ base = [w \in Workers |-> 0]
    /\ tmp = [w \in Workers |-> None]
    /\ head = [w \in Workers |-> 0]
    /\ exc = [w \in Workers |-> "none"]
    /\ tmpdir = [w \in Workers |-> FALSE]
    /\ result = [w \in Workers |-> None]
    /\ looked = [w \in Workers |-> {}]
    /\ lastRes = NoHist
    /\ seenRes = [w \in Workers |-> NoHist]
    /\ tpc = "idle"
    /\ ticket = NoTicket
    /\ req = NoRequest
    /\ call = NoCall
    /\ table = <<>>

Init == InitCore /\ histOn = FALSE

\* the same program, with the history of returned statuses recorded
HistInit == InitCore /\ histOn = TRUE

(***************************************************************************)
(* Helpers shared by the steps of a request handler.                       *)
(***************************************************************************)
RowsFor(t) == {r \in rows : r.target = t}

\* self._git.get(tmp): the object of the main repository with that id
Get(id) == IF id \in objects THEN id ELSE None

\* repo.merge(branch.oid): the library's analysis of HEAD against the branch
MergeAnalysis(h, t) ==
    IF IsAncestor(t, h) THEN "uptodate"
    ELSE IF MergeBase(h, t) = h THEN "fastforward"
    ELSE "normal"

\* filter_stream returns (res a status) or raises (res an error marker)
Finish(w, res, hit) ==
    /\ pc' = [pc EXCEPT ![w] = "done"]
    /\ result' = [result EXCEPT ![w] = res]
    /\ base' = [base EXCEPT ![w] = 0]
    /\ tmp' = [tmp EXCEPT ![w] = None]
    /\ lastRes' = IF /\ histOn
                     /\ IsStatus(res)
                     /\ seenRes[w] # Moved
                     /\ lastRes.t \in {0, tgt[w]}
                     /\ ~(lastRes.hit /\ IsCommit(lastRes.res))
                  THEN Hist(tgt[w], res, hit)
                  ELSE lastRes

(***************************************************************************)
(* filter_stream, lines 53-76: the branch field is stripped and looked up. *)
(***************************************************************************)
\* Start without the `branch is None` return of lines 73-74
StartUnchecked(w) ==
    /\ pc[w] = "idle"
    /\ \E name \in Names :
         IF name = <<>>
         THEN /\ pc' = [pc EXCEPT ![w] = "done"]
              /\ result' = [result EXCEPT ![w] = St("Unfiltered")]
              /\ UNCHANGED <<tgt, looked, seenRes>>
         ELSE LET b == Strip(name)
                  c == LookupBranch(b)
              IN  /\ looked' = [looked EXCEPT ![w] = {b}]
                  /\ IF FALSE
                     THEN /\ pc' = [pc EXCEPT ![w] = "done"]
                          /\ result' = [result EXCEPT ![w] = St("NotFound")]
                          /\ UNCHANGED <<tgt, seenRes>>
                     ELSE /\ pc' = [pc EXCEPT ![w] = "gc_create"]
                          /\ tgt' = [tgt EXCEPT ![w] = c]
                          /\ seenRes' = [seenRes EXCEPT ![w] = HistOf(lastRes, c)]
                          /\ UNCHANGED result
    /\ UNCHANGED <<ticketVars, repoVars,
                   objects, tableExists, rows, base, tmp, head, exc,
                   tmpdir, lastRes>>

Start(w) ==
    /\ pc[w] = "idle"
    /\ \E name \in Names :
         IF name = <<>>
         THEN /\ pc' = [pc EXCEPT ![w] = "done"]
              /\ result' = [result EXCEPT ![w] = St("Unfiltered")]
              /\ UNCHANGED <<tgt, looked, seenRes>>
         ELSE LET b == Strip(name)
                  c == LookupBranch(b)
              IN  /\ looked' = [looked EXCEPT ![w] = {b}]
                  /\ IF c = 0
                     THEN /\ pc' = [pc EXCEPT ![w] = "done"]
                          /\ result' = [result EXCEPT ![w] = St("NotFound")]
                          /\ UNCHANGED <<tgt, seenRes>>
                     ELSE /\ pc' = [pc EXCEPT ![w] = "gc_create"]
                          /\ tgt' = [tgt EXCEPT ![w] = c]
                          /\ seenRes' = [seenRes EXCEPT ![w] = HistOf(lastRes, c)]
                          /\ UNCHANGED result
    /\ UNCHANGED <<ticketVars, repoVars,
                   objects, tableExists, rows, base, tmp, head, exc,
                   tmpdir, lastRes>>

(***************************************************************************)
(* _create_table and _drop_table: one transaction each.                    *)
(***************************************************************************)
CreateTable ==
    /\ tableExists' = TRUE
    /\ rows' = IF tableExists THEN rows ELSE {}

DropTable ==
    /\ tableExists' = FALSE
    /\ rows' = {}

(***************************************************************************)
(* _get_cache                                                              *)
(***************************************************************************)
GetCacheCreate(w) ==
    /\ pc[w] = "gc_create"
    /\ CreateTable
    /\ pc' = [pc EXCEPT ![w] = "gc_select"]
    /\ UNCHANGED <<ticketVars, repoVars,
                   objects, tgt, base, tmp, head, exc, tmpdir,
                   result, looked, lastRes, seenRes>>

GetCacheSelect(w) ==
    /\ pc[w] = "gc_select"
    /\ IF ~tableExists
       THEN /\ Finish(w, St("DbError"), FALSE)
       ELSE IF RowsFor(tgt[w]) = {}
       THEN /\ pc' = [pc EXCEPT ![w] = "m_clone"]
            /\ UNCHANGED <<base, tmp, result, lastRes>>
       ELSE LET row == CHOOSE r \in RowsFor(tgt[w]) : TRUE
            IN  /\ base' = [base EXCEPT ![w] = row.base]
                /\ tmp' = [tmp EXCEPT ![w] = row.tmp]
                /\ pc' = [pc EXCEPT ![w] = "gc_check"]
                /\ UNCHANGED <<result, lastRes>>
    /\ UNCHANGED <<ticketVars, repoVars,
                   objects, tableExists, rows, tgt, head, exc,
                   tmpdir, looked, seenRes>>

GetCacheCheck(w) ==
    /\ pc[w] = "gc_check"
    /\ IF base[w] # master_sha1
       THEN /\ pc' = [pc EXCEPT ![w] = "gc_drop"]
            /\ UNCHANGED <<base, tmp, result, lastRes>>
       ELSE LET val == IF tmp[w] \in GIT_SPECIAL_MERGES THEN tmp[w]
                       ELSE Get(tmp[w])
            IN  IF val = None
                THEN /\ pc' = [pc EXCEPT ![w] = "m_clone"]
                     /\ tmp' = [tmp EXCEPT ![w] = None]
                     /\ UNCHANGED <<base, result, lastRes>>
                ELSE Finish(w, val, TRUE)
    /\ UNCHANGED <<ticketVars, repoVars,
                   objects, tableExists, rows, tgt, head, exc,
                   tmpdir, looked, seenRes>>

\* _get_cache deleting only the stale row instead of dropping the table
GetCacheDropOwnRow(w) ==
    /\ pc[w] = "gc_drop"
    /\ rows' = rows \ RowsFor(tgt[w])
    /\ UNCHANGED tableExists
    /\ pc' = [pc EXCEPT ![w] = "m_clone"]
    /\ tmp' = [tmp EXCEPT ![w] = None]
    /\ UNCHANGED <<ticketVars, repoVars,
                   objects, tgt, base, head, exc, tmpdir, result,
                   looked, lastRes, seenRes>>

GetCacheDrop(w) ==
    /\ pc[w] = "gc_drop"
    /\ DropTable
    /\ pc' = [pc EXCEPT ![w] = "m_clone"]
    /\ tmp' = [tmp EXCEPT ![w] = None]
    /\ UNCHANGED <<ticketVars, repoVars,
                   objects, tgt, base, head, exc, tmpdir, result,
                   looked, lastRes, seenRes>>

(***************************************************************************)
(* _merge                                                                  *)
(***************************************************************************)
\* tempfile.mkdtemp, git clone --branch=develop, pygit2.Repository(tmpdir);
\* a failed clone is not checked and surfaces when the repository is opened
MergeClone(w) ==
    /\ pc[w] = "m_clone"
    /\ tmpdir' = [tmpdir EXCEPT ![w] = TRUE]
    /\ base' = [base EXCEPT ![w] = 0]
    /\ \/ /\ head' = [head EXCEPT ![w] = master]
          /\ pc' = [pc EXCEPT ![w] = "m_merge"]
          /\ UNCHANGED exc
       \/ /\ \E e \in {"vcs", "other"} : exc' = [exc EXCEPT ![w] = e]
          /\ pc' = [pc EXCEPT ![w] = "m_finally"]
          /\ UNCHANGED head
    /\ UNCHANGED <<ticketVars, repoVars,
                   objects, tableExists, rows, tgt, tmp, result,
                   looked, lastRes, seenRes>>

\* _merge with the two special results of lines 163-166 exchanged
MergeAnalyzeSwapped(w) ==
    /\ pc[w] = "m_merge"
    /\ pc' = [pc EXCEPT ![w] = "m_finally"]
    /\ \/ /\ exc' = [exc EXCEPT ![w] = "vcs"]
          /\ UNCHANGED <<tmp, objects>>
       \/ \E s \in SigTimes :
          LET a == MergeAnalysis(head[w], tgt[w])
              commit == Preview(head[w], tgt[w], s)
          IN  IF a = "fastforward"
              THEN /\ tmp' = [tmp EXCEPT ![w] = GIT_UPTODATE]
                   /\ UNCHANGED <<exc, objects>>
              ELSE IF a = "uptodate"
              THEN /\ tmp' = [tmp EXCEPT ![w] = GIT_FASTFORWARD]
                   /\ UNCHANGED <<exc, objects>>
              ELSE IF <<head[w], tgt[w]>> \in Conflicts
              THEN /\ exc' = [exc EXCEPT ![w] = "conflict"]
                   /\ UNCHANGED <<tmp, objects>>
              ELSE /\ objects' = objects \cup {commit}
                   /\ tmp' = [tmp EXCEPT ![w] = commit]
                   /\ UNCHANGED exc
    /\ UNCHANGED <<ticketVars, repoVars,
                   tableExists, rows, tgt, base, head, tmpdir,
                   result, looked, lastRes, seenRes>>

\* _merge run in the main repository instead of a clone: a fast-forward
\* moves develop to the branch
MergeAnalyzeInPlace(w) ==
    /\ pc[w] = "m_merge"
    /\ pc' = [pc EXCEPT ![w] = "m_finally"]
    /\ \/ /\ exc' = [exc EXCEPT ![w] = "vcs"]
          /\ UNCHANGED <<tmp, objects, master>>
       \/ \E s \in SigTimes :
          LET a == MergeAnalysis(head[w], tgt[w])
              commit == Preview(head[w], tgt[w], s)
          IN  IF a = "fastforward"
              THEN /\ tmp' = [tmp EXCEPT ![w] = GIT_FASTFORWARD]
                   /\ master' = tgt[w]
                   /\ UNCHANGED <<exc, objects>>
              ELSE IF a = "uptodate"
              THEN /\ tmp' = [tmp EXCEPT ![w] = GIT_UPTODATE]
                   /\ UNCHANGED <<exc, objects, master>>
              ELSE IF <<head[w], tgt[w]>> \in Conflicts
              THEN /\ exc' = [exc EXCEPT ![w] = "conflict"]
                   /\ UNCHANGED <<tmp, objects, master>>
              ELSE /\ objects' = objects \cup {commit}
                   /\ tmp' = [tmp EXCEPT ![w] = commit]
                   /\ UNCHANGED <<exc, master>>
    /\ UNCHANGED <<ticketVars, refMoves, branches, histOn, tableExists, rows, tgt, base,
                   head, tmpdir, result, looked, lastRes, seenRes>>

MergeAnalyze(w) ==
    /\ pc[w] = "m_merge"
    /\ pc' = [pc EXCEPT ![w] = "m_finally"]
    /\ \/ /\ exc' = [exc EXCEPT ![w] = "vcs"]
          /\ UNCHANGED <<tmp, objects>>
       \/ \E s \in SigTimes :
          LET a == MergeAnalysis(head[w], tgt[w])
              commit == Preview(head[w], tgt[w], s)
          IN  IF a = "fastforward"
              THEN /\ tmp' = [tmp EXCEPT ![w] = GIT_FASTFORWARD]
                   /\ UNCHANGED <<exc, objects>>
              ELSE IF a = "uptodate"
              THEN /\ tmp' = [tmp EXCEPT ![w] = GIT_UPTODATE]
                   /\ UNCHANGED <<exc, objects>>
              ELSE IF <<head[w], tgt[w]>> \in Conflicts
              THEN /\ exc' = [exc EXCEPT ![w] = "conflict"]
                   /\ UNCHANGED <<tmp, objects>>
              ELSE /\ objects' = objects \cup {commit}
                   /\ tmp' = [tmp EXCEPT ![w] = commit]
                   /\ UNCHANGED exc
    /\ UNCHANGED <<ticketVars, repoVars,
                   tableExists, rows, tgt, base, head, tmpdir,
                   result, looked, lastRes, seenRes>>

\* _merge removing its directory after the try block instead of in finally
MergeFinallyOnSuccess(w) ==
    /\ pc[w] = "m_finally"
    /\ tmpdir' = [tmpdir EXCEPT ![w] = (exc[w] # "none")]
    /\ head' = [head EXCEPT ![w] = 0]
    /\ IF exc[w] = "other"
       THEN /\ Finish(w, St("Error"), FALSE)
       ELSE /\ pc' = [pc EXCEPT ![w] = "sc_create"]
            /\ tmp' = [tmp EXCEPT ![w] =
                         IF IsGitError(exc[w]) THEN GIT_FAILED_MERGE ELSE @]
            /\ UNCHANGED <<base, result, lastRes>>
    /\ UNCHANGED <<ticketVars, repoVars, objects, tableExists, rows, tgt, exc,
                   looked, seenRes>>

\* the finally clause of _merge, then lines 86-89 of filter_stream
MergeFinally(w) ==
    /\ pc[w] = "m_finally"
    /\ tmpdir' = [tmpdir EXCEPT ![w] = FALSE]
    /\ head' = [head EXCEPT ![w] = 0]
    /\ IF exc[w] = "other"
       THEN /\ Finish(w, St("Error"), FALSE)
       ELSE /\ pc' = [pc EXCEPT ![w] = "sc_create"]
            /\ tmp' = [tmp EXCEPT ![w] =
                         IF IsGitError(exc[w]) THEN GIT_FAILED_MERGE ELSE @]
            /\ UNCHANGED <<base, result, lastRes>>
    /\ UNCHANGED <<ticketVars, repoVars, objects, tableExists, rows, tgt, exc,
                   looked, seenRes>>

(***************************************************************************)
(* _set_cache: _create_table commits first; the DELETE and the INSERT run  *)
(* in one db_transaction, taken as one atomic step, and master_sha1 is     *)
(* read when the INSERT is issued.                                         *)
(***************************************************************************)
SetCacheCreate(w) ==
    /\ pc[w] = "sc_create"
    /\ CreateTable
    /\ pc' = [pc EXCEPT ![w] = "sc_txn"]
    /\ UNCHANGED <<ticketVars, repoVars,
                   objects, tgt, base, tmp, head, exc, tmpdir,
                   result, looked, lastRes, seenRes>>

\* _set_cache without the DELETE of line 130
SetCacheTxnNoDelete(w) ==
    /\ pc[w] = "sc_txn"
    /\ IF ~tableExists
       THEN /\ Finish(w, St("DbError"), FALSE)
            /\ UNCHANGED rows
       ELSE /\ rows' = rows \cup
                         {[base |-> master_sha1, target |-> tgt[w],
                           tmp |-> tmp[w]]}
            /\ Finish(w, tmp[w], FALSE)
    /\ UNCHANGED <<ticketVars, repoVars, objects, tableExists, tgt, head, exc,
                   tmpdir, looked, seenRes>>

SetCacheTxn(w) ==
    /\ pc[w] = "sc_txn"
    /\ IF ~tableExists
       THEN /\ Finish(w, St("DbError"), FALSE)
            /\ UNCHANGED rows
       ELSE /\ rows' = (rows \ RowsFor(tgt[w])) \cup
                         {[base |-> master_sha1, target |-> tgt[w],
                           tmp |-> tmp[w]]}
            /\ Finish(w, tmp[w], FALSE)
    /\ UNCHANGED <<ticketVars, repoVars, objects, tableExists, tgt, head, exc,
                   tmpdir, looked, seenRes>>

\* the request is over; the handler serves the next one
Return(w) ==
    /\ pc[w] = "done"
    /\ pc' = [pc EXCEPT ![w] = "idle"]
    /\ tgt' = [tgt EXCEPT ![w] = 0]
    /\ exc' = [exc EXCEPT ![w] = "none"]
    /\ looked' = [looked EXCEPT ![w] = {}]
    /\ result' = [result EXCEPT ![w] = None]
    /\ seenRes' = [seenRes EXCEPT ![w] = NoHist]
    /\ UNCHANGED <<ticketVars, repoVars,
                   objects, tableExists, rows, base, tmp, head,
                   tmpdir, lastRes>>

(***************************************************************************)
(* The repository changes under the plugin: develop advances, a branch is  *)
(* created from the tip of develop.                                        *)
(***************************************************************************)
MoveReference ==
    /\ refMoves < (IF histOn THEN HistMaxRefMoves ELSE MaxRefMoves)
    /\ refMoves + 1 < Len(RefLine)
    /\ refMoves' = refMoves + 1
    /\ master' = RefLine[refMoves + 2]
    /\ seenRes' = [w \in Workers |->
                      IF pc[w] = "idle" \/ ~histOn THEN NoHist ELSE Moved]
    /\ lastRes' = NoHist
    /\ UNCHANGED <<ticketVars, histOn,
                   branches, objects, tableExists, rows, pc, tgt, base, tmp,
                   head, exc, tmpdir, result, looked>>

PushBranch ==
    /\ branches[<<"n">>] = 0
    /\ branches' = [branches EXCEPT ![<<"n">>] = 3]
    /\ UNCHANGED <<ticketVars, histOn,
                   master, refMoves, objects, tableExists, rows, pc, tgt,
                   base, tmp, head, exc, tmpdir, result, looked,
                   lastRes, seenRes>>

Handler(w) ==
    \/ Start(w)
    \/ GetCacheCreate(w)
    \/ GetCacheSelect(w)
    \/ GetCacheCheck(w)
    \/ GetCacheDrop(w)
    \/ MergeClone(w)
    \/ MergeAnalyze(w)
    \/ MergeFinally(w)
    \/ SetCacheCreate(w)
    \/ SetCacheTxn(w)
    \/ Return(w)

Next ==
    \/ \E w \in Workers : Handler(w)
    \/ MoveReference
    \/ PushBranch

Spec == Init /\ [][Next]_vars

HistSpec == HistInit /\ [][Next]_vars

\* every request handler that can take a step eventually takes one
FairSpec == Spec /\ \A w \in Workers : WF_vars(Handler(w))

(***************************************************************************)
(* validate_ticket and log_table.  Strings are sequences: a branch name is *)
(* a sequence of characters, a commit id is written Hex(c), and a comment  *)
(* is a sequence of tokens, NL being the line break.                       *)
(***************************************************************************)
MAX_NEW_COMMITS == 10

MASTER_BRANCH == <<"develop">>

\* unicode(commit.hex): the 40 hexadecimal digits of commit c, in lower case
Hex(c) == <<"hex", ToString(c)>>

\* the same id written with upper-case digits
UpperHex(c) == <<"HEX", ToString(c)>>

\* the ids of the commits of the repository
HexIds == {Hex(c) : c \in Commits}

\* the None that _valid_commit returns
NoCommit == <<"None">>

\* _valid_commit: a string of 40 hexadecimal digits, in lower case, or None
valid_commit(val) ==
    IF Len(val) = 2 /\ val[1] \in {"hex", "HEX"}
    THEN <<"hex", val[2]>>
    ELSE NoCommit

\* self._git.get(b), self._git[b]: the commit with that id (0: no object)
GetCommit(b) ==
    IF b \in HexIds THEN CHOOSE c \in Commits : Hex(c) = b ELSE 0

\* self._git.lookup_branch(b), develop included
LookupRef(b) == IF b = MASTER_BRANCH THEN master ELSE LookupBranch(b)

\* lines 231-237 of log_table: the commit an element of `ignore` stands for
Resolve(b) ==
    LET c == LookupRef(b)
    IN  IF c = 0 THEN GetCommit(b) ELSE c

\* walker.hide(c.oid) hides the commit and all its ancestors
Hidden(ignore) ==
    UNION {AncestorSets[Resolve(b)] : b \in {x \in ignore : Resolve(x) # 0}}

\* walker.hide(c.oid) hiding the commit alone
HiddenSelfOnly(ignore) ==
    {Resolve(b) : b \in {x \in ignore : Resolve(x) # 0}}

RECURSIVE SortDesc(_)
SortDesc(S) ==
    IF S = {} THEN <<>>
    ELSE LET m == CHOOSE x \in S : \A y \in S : y <= x
         IN  <<m>> \o SortDesc(S \ {m})

\* self._git.walk(oid, GIT_SORT_TOPOLOGICAL | GIT_SORT_TIME) with the hidden
\* commits left out: children before parents, newest first
Walk(from, hidden) == SortDesc(AncestorSets[from] \ hidden)

Tok(k, c) == [k |-> k, c |-> c]
NL == Tok("\n", 0)
Rule == <<Tok("----", 0)>>
LastHeader == <<Tok("Last {0} new commits:", MAX_NEW_COMMITS)>>
NewHeader == <<Tok("New commits:", 0)>>

\* the line u'||[url short_sha1]||{{{title}}}||' of commit c
RowLine(c) == <<Tok("row", c)>>

\* unicode.splitlines
RECURSIVE SplitLines(_)
SplitLines(str) ==
    IF str = <<>> THEN <<>>
    ELSE IF \E i \in 1 .. Len(str) : str[i] = NL
    THEN LET i == CHOOSE j \in 1 .. Len(str) :
                     str[j] = NL /\ \A k \in 1 .. j - 1 : str[k] # NL
         IN  <<SubSeq(str, 1, i - 1)>> \o SplitLines(SubSeq(str, i + 1, Len(str)))
    ELSE <<str>>

\* u'\n'.join
RECURSIVE Join(_)
Join(lines) ==
    IF lines = <<>> THEN <<>>
    ELSE IF Len(lines) = 1 THEN lines[1]
    ELSE lines[1] \o <<NL>> \o Join(Tail(lines))

Reverse(seq) == [i \in 1 .. Len(seq) |-> seq[Len(seq) + 1 - i]]

\* the loop of lines 241-255
RECURSIVE Collect(_, _, _)
Collect(walker, tab, limit) ==
    IF walker = <<>> \/ Len(tab) >= limit THEN tab
    ELSE Collect(Tail(walker), Append(tab, RowLine(Head(walker))), limit)

\* log_table without table.reverse()
log_tableNoReverse(new_commit, limit, ignore) ==
    Collect(Walk(GetCommit(new_commit), Hidden(ignore)), <<>>, limit)

\* log_table hiding the ignored commits without their ancestors
log_tableHideSelfOnly(new_commit, limit, ignore) ==
    Reverse(Collect(Walk(GetCommit(new_commit), HiddenSelfOnly(ignore)),
                    <<>>, limit))

\* log_table, for a new_commit that is in the repository
log_table(new_commit, limit, ignore) ==
    Reverse(Collect(Walk(GetCommit(new_commit), Hidden(ignore)), <<>>, limit))

\* limit=float('inf'): more than any table holds
Infinity == Cardinality(Commits) + 1

Limits == (0 .. 12) \cup {Infinity}

\* what log_table is asked to ignore: branch names and commit ids, one of
\* them the id of no object
IgnoreSets ==
    {ig \in SUBSET {MASTER_BRANCH, <<"a">>, Hex(9), Hex(0)} :
        Cardinality(ig) <= 2}

\* the commit field of the ticket as it reaches validate_ticket
OldCommits ==
    {<<>>, <<"x">>, Hex(0), Hex(3), Hex(4), UpperHex(4), Hex(6), Hex(9)}

Comments ==
    {<<>>, <<Tok("text", 1)>>, <<Tok("text", 1), NL, Tok("text", 2), NL>>}

\* a request to change a ticket arrives: Trac fills in the ticket and the
\* request arguments and calls the ticket manipulators
Submit ==
    /\ tpc = "idle"
    /\ tpc' = "validate"
    /\ \E name \in Names, old \in OldCommits :
         ticket' = [branch |-> name, commit |-> old]
    /\ \E preview \in BOOLEAN, id \in BOOLEAN, comment \in Comments :
         req' = [preview |-> preview, id |-> id, comment |-> comment]
    /\ UNCHANGED <<call, table, repoVars, evalVars>>

\* the comment that lines 286-298 make of the table
NewComment(comment, tab) ==
    LET header == IF Len(tab) > MAX_NEW_COMMITS THEN LastHeader ELSE NewHeader
        rows10 == IF Len(tab) > MAX_NEW_COMMITS
                  THEN SubSeq(tab, 1, MAX_NEW_COMMITS)
                  ELSE tab
        lines == SplitLines(comment)
    IN  IF rows10 = <<>> THEN comment
        ELSE Join((IF lines # <<>> THEN lines \o <<Rule>> ELSE lines)
                    \o <<header>> \o rows10)

\* validate_ticket calling log_table with limit=MAX_NEW_COMMITS
ValidateTicketLimit10 ==
    /\ tpc = "validate"
    /\ tpc' = "validated"
    /\ LET branch == Strip(ticket.branch)
           old_commit == valid_commit(ticket.commit)
           c == IF ticket.branch # <<>> THEN LookupBranch(branch) ELSE 0
           commit == IF c = 0 THEN <<>> ELSE Hex(c)
           ignore == {MASTER_BRANCH} \cup
                       (IF old_commit # NoCommit THEN {old_commit} ELSE {})
           args == [called |-> TRUE, new_commit |-> commit,
                    limit |-> MAX_NEW_COMMITS, ignore |-> ignore,
                    raised |-> FALSE]
       IN  /\ ticket' = [branch |-> branch, commit |-> commit]
           /\ IF ~req.preview /\ req.id /\ commit # <<>> /\ commit # old_commit
              THEN \/ /\ call' = [args EXCEPT !.raised = TRUE]
                      /\ table' = <<>>
                      /\ req' = req
                   \/ /\ call' = args
                      /\ table' = log_table(commit, MAX_NEW_COMMITS, ignore)
                      /\ req' = [req EXCEPT !.comment = NewComment(@, table')]
              ELSE /\ call' = NoCall
                   /\ table' = <<>>
                   /\ req' = req
    /\ UNCHANGED <<repoVars, evalVars>>

\* validate_ticket listing the commits of a preview request as well
ValidateTicketOnPreview ==
    /\ tpc = "validate"
    /\ tpc' = "validated"
    /\ LET branch == Strip(ticket.branch)
           old_commit == valid_commit(ticket.commit)
           c == IF ticket.branch # <<>> THEN LookupBranch(branch) ELSE 0
           commit == IF c = 0 THEN <<>> ELSE Hex(c)
           ignore == {MASTER_BRANCH} \cup
                       (IF old_commit # NoCommit THEN {old_commit} ELSE {})
           args == [called |-> TRUE, new_commit |-> commit,
                    limit |-> MAX_NEW_COMMITS + 1, ignore |-> ignore,
                    raised |-> FALSE]
       IN  /\ ticket' = [branch |-> branch, commit |-> commit]
           /\ IF req.id /\ commit # <<>> /\ commit # old_commit
              THEN \/ /\ call' = [args EXCEPT !.raised = TRUE]
                      /\ table' = <<>>
                      /\ req' = req
                   \/ /\ call' = args
                      /\ table' = log_table(commit, MAX_NEW_COMMITS + 1, ignore)
                      /\ req' = [req EXCEPT !.comment = NewComment(@, table')]
              ELSE /\ call' = NoCall
                   /\ table' = <<>>
                   /\ req' = req
    /\ UNCHANGED <<repoVars, evalVars>>

\* validate_ticket: the walk of log_table either runs or raises a GitError
ValidateTicket ==
    /\ tpc = "validate"
    /\ tpc' = "validated"
    /\ LET branch == Strip(ticket.branch)
           old_commit == valid_commit(ticket.commit)
           c == IF ticket.branch # <<>> THEN LookupBranch(branch) ELSE 0
           commit == IF c = 0 THEN <<>> ELSE Hex(c)
           ignore == {MASTER_BRANCH} \cup
                       (IF old_commit # NoCommit THEN {old_commit} ELSE {})
           args == [called |-> TRUE, new_commit |-> commit,
                    limit |-> MAX_NEW_COMMITS + 1, ignore |-> ignore,
                    raised |-> FALSE]
       IN  /\ ticket' = [branch |-> branch, commit |-> commit]
           /\ IF ~req.preview /\ req.id /\ commit # <<>> /\ commit # old_commit
              THEN \/ /\ call' = [args EXCEPT !.raised = TRUE]
                      /\ table' = <<>>
                      /\ req' = req
                   \/ /\ call' = args
                      /\ table' = log_table(commit, MAX_NEW_COMMITS + 1, ignore)
                      /\ req' = [req EXCEPT !.comment = NewComment(@, table')]
              ELSE /\ call' = NoCall
                   /\ table' = <<>>
                   /\ req' = req
    /\ UNCHANGED <<repoVars, evalVars>>

\* a call of log_table by another caller, with any limit and ignore list;
\* self._git[new_commit] raises KeyError for the id of no object
LogTable ==
    /\ tpc = "idle"
    /\ tpc' = "logged"
    /\ \E c \in Commits \cup {0}, limit \in Limits, ignore \in IgnoreSets :
         LET args == [called |-> TRUE, new_commit |-> Hex(c),
                      limit |-> limit, ignore |-> ignore, raised |-> FALSE]
         IN  IF GetCommit(Hex(c)) = 0
             THEN /\ call' = [args EXCEPT !.raised = TRUE]
                  /\ table' = <<>>
             ELSE /\ call' = args
                  /\ table' = log_table(Hex(c), limit, ignore)
    /\ UNCHANGED <<ticket, req, repoVars, evalVars>>

\* the request is over
TicketReturn ==
    /\ tpc \in {"validated", "logged"}
    /\ tpc' = "idle"
    /\ ticket' = NoTicket
    /\ req' = NoRequest
    /\ call' = NoCall
    /\ table' = <<>>
    /\ UNCHANGED <<repoVars, evalVars>>

\* the ticket branch is pushed, or forced, to another commit of its line;
\* validate_ticket and log_table being one step each, a push during a
\* request is a push before or after it
PushCommits ==
    /\ tpc = "idle"
    /\ \E c \in TicketLine \ {branches[<<"a">>]} :
         branches' = [branches EXCEPT ![<<"a">>] = c]
    /\ UNCHANGED <<master, refMoves, histOn, evalVars, ticketVars>>

TicketNext ==
    \/ Submit
    \/ ValidateTicket
    \/ LogTable
    \/ TicketReturn
    \/ PushCommits
    \/ PushBranch
    \/ MoveReference

TicketSpec == Init /\ [][TicketNext]_vars

(***************************************************************************)
(* Properties                                                              *)
(***************************************************************************)
Returned(w) == pc[w] = "done" /\ IsStatus(result[w])

\* a call for the handler's target had returned, with develop where it is
\* now, before the handler started
HasEarlierCall(w) == tgt[w] # 0 /\ seenRes[w].t = tgt[w]

\* C1: two calls of filter_stream for the same target, with develop and the
\* target unchanged in between, return the same status (the same preview
\* commit when the branch merges), whatever runs in between.
C1_Idempotent ==
    \A w \in Workers :
        (Returned(w) /\ HasEarlierCall(w)) => result[w] = seenRes[w].res

\* C2: once a preview commit has been read back from the cache for a target,
\* every evaluation of that target that starts later returns that preview,
\* and no _set_cache puts another preview in its row while develop stays.
C2_Memoized ==
    /\ \A w \in Workers :
         (Returned(w) /\ HasEarlierCall(w) /\ seenRes[w].hit
            /\ IsCommit(seenRes[w].res)) => result[w] = seenRes[w].res
    /\ (lastRes.hit /\ IsCommit(lastRes.res)) =>
         \A r \in rows :
            (r.target = lastRes.t /\ r.base = master) => r.tmp = lastRes.res

\* C3: a lookup that finds a row whose base is not the current develop
\* commit never returns it: it drops the whole table, leaving no row for any
\* target, and reports a miss; a row is only returned when its base is the
\* current develop commit.
C3_Invalidation ==
    [][\A w \in Workers :
         /\ (pc[w] = "gc_check" /\ pc'[w] # "gc_check" /\ base[w] # master)
              => (pc'[w] = "gc_drop" /\ result'[w] = result[w])
         /\ (pc[w] = "gc_drop" /\ pc'[w] # "gc_drop")
              => (/\ ~tableExists'
                  /\ rows' = {}
                  /\ tmp'[w] = None
                  /\ pc'[w] = "m_clone")]_vars

\* a handler has just dropped the table on a stale row while develop is at
\* another commit than the row's base
C3_Witness ==
    \E w \in Workers :
        /\ pc[w] = "m_clone"
        /\ base[w] # 0
        /\ base[w] # master
        /\ ~tableExists

AtMostOneRow == \A t \in Commits : Cardinality(RowsFor(t)) <= 1

C5_TransientNotCached ==
    [][\A w \in Workers :
         (pc[w] = "sc_txn" /\ pc'[w] # "sc_txn" /\ exc[w] = "vcs")
           => rows' = rows]_vars

\* C6: when the name does not resolve to a branch, filter_stream reports
\* "branch does not exist" at once: no cache lookup, no merge, no cache
\* write, merge_store unchanged.
C6_NotFound ==
    [][\A w \in Workers :
         (/\ pc[w] = "idle"
          /\ looked'[w] # {}
          /\ \A b \in looked'[w] : LookupBranch(b) = 0)
           => (/\ pc'[w] = "done"
               /\ result'[w] = St("NotFound")
               /\ UNCHANGED <<tableExists, rows, objects, tmpdir, tgt>>)]_vars

C6_Witness ==
    \E w \in Workers :
        /\ pc[w] = "done"
        /\ looked[w] = {<<"n">>}
        /\ result[w] = St("NotFound")
        /\ rows # {}

\* _merge has computed its result for HEAD h of the clone and branch t
Merged(w) == pc[w] = "m_finally" /\ exc[w] = "none"

NoCommits == St("NoCommits")

\* C8: a target that is its own merge base with the reference is given the
\* status NoCommits, before FastForward and UpToDate are considered.
C8_NoCommits ==
    \A w \in Workers :
        (Merged(w) /\ MergeBase(head[w], tgt[w]) = tgt[w])
            => tmp[w] = NoCommits

\* C9: lookup_branch is only handed names the validator accepts.
C9_ValidNamesOnly ==
    \A w \in Workers : \A b \in looked[w] : IsValidName(b)

\* C10: the temporary directory of _merge exists only inside its try block
\* and is always deleted in the end, whatever _merge returned or raised.
C10_ScopedWorkingCopy ==
    /\ [](\A w \in Workers : tmpdir[w] => pc[w] \in {"m_merge", "m_finally"})
    /\ \A w \in Workers : [](tmpdir[w] => <>(~tmpdir[w]))

\* _merge has raised on a conflict and its directory is gone
C10_Witness ==
    \E w \in Workers :
        pc[w] = "sc_create" /\ exc[w] = "conflict" /\ ~tmpdir[w]

\* C11: no step of an evaluation creates, moves or deletes a reference of
\* the main repository: develop and every branch point to the same commits
\* after the step as before it, and the only change to the repository is a
\* preview commit added to its objects.
C11_RefsUntouched ==
    [][(\E w \in Workers : pc'[w] # pc[w])
         => (/\ master' = master
             /\ branches' = branches
             /\ objects \subseteq objects')]_vars

\* _merge has written a preview commit, and has found a fast-forward, with
\* develop and the branches where they were when the clones were made
C11_Witness ==
    \E v, w \in Workers :
        /\ Merged(v) /\ tmp[v] \in objects
        /\ head[v] = master /\ branches[<<"a">>] = tgt[v]
        /\ Merged(w) /\ tmp[w] = GIT_FASTFORWARD
        /\ head[w] = master /\ branches[<<"n">>] = tgt[w]

\* C15: all rows of merge_store carry the same base: the table never holds
\* rows written under two different develop commits at the same time.
C15_SingleEpoch ==
    \A r1, r2 \in rows : r1.base = r2.base

\* C16: a row (base R, target T, tmp S) holds a status that _merge computed
\* against R and T: a cached preview commit has the parents [R, T], also
\* when develop moves between the clone of _merge and the INSERT.
C16_RowMatchesEpoch ==
    \A r \in rows :
        IsCommit(r.tmp) => (r.tmp.r = r.base /\ r.tmp.t = r.target)

\* C19: whenever a handler is about to run the SELECT of _get_cache or the
\* DELETE and INSERT of _set_cache, which follow its _create_table, the
\* table exists.
C19_TableExistsAtQuery ==
    \A w \in Workers : pc[w] \in {"gc_select", "sc_txn"} => tableExists

\* a call of log_table has just returned a table
Logged == tpc' # tpc /\ call'.called /\ ~call'.raised

\* the commits reachable from `from` that are neither a commit of `ignore`
\* nor an ancestor of one
NewCommits(from, ignore) ==
    {c \in AncestorSets[from] :
        \A b \in ignore : Resolve(b) # 0 => c \notin AncestorSets[Resolve(b)]}

\* the commits of the rows of a table, in the order of the table
RowCommits(tab) == [i \in 1 .. Len(tab) |-> tab[i][1].c]

Range(seq) == {seq[i] : i \in 1 .. Len(seq)}

Min(a, b) == IF a <= b THEN a ELSE b

\* C12: log_table(new_commit, limit, ignore) returns min(limit, n) rows, n
\* the number of commits reachable from new_commit and not excluded; they
\* are the newest of these commits, listed from the oldest to the newest.
C12_LogBoundAndOrder ==
    [][Logged =>
         LET new == NewCommits(GetCommit(call'.new_commit), call'.ignore)
             listed == RowCommits(table')
         IN  /\ Len(table') = Min(call'.limit, Cardinality(new))
             /\ \A i, j \in 1 .. Len(listed) : i < j => listed[i] < listed[j]
             /\ Range(listed) \subseteq new
             /\ \A c \in new \ Range(listed) :
                   \A d \in Range(listed) : c < d]_vars

\* log_table was called with limit 10 for a commit with 15 new commits and
\* has returned 10 rows
C12_Witness ==
    /\ tpc = "logged"
    /\ ~call.raised
    /\ call.limit = MAX_NEW_COMMITS
    /\ Cardinality(NewCommits(GetCommit(call.new_commit), call.ignore)) = 15
    /\ Len(table) = MAX_NEW_COMMITS

\* validate_ticket has just called log_table, which returned a table
Listed == tpc = "validate" /\ Logged

\* the commits of the rows of a comment, in the order of the comment
CommentRows(str) ==
    LET rows10 == SelectSeq(str, LAMBDA t : t.k = "row")
    IN  [i \in 1 .. Len(rows10) |-> rows10[i].c]

HasLine(str, line) == line \in Range(SplitLines(str))

\* the commits of the branch that are neither in develop nor in the old
\* commit of the ticket
TicketNewCommits ==
    LET tip == LookupBranch(Strip(ticket.branch))
        old == GetCommit(valid_commit(ticket.commit))
    IN  {c \in AncestorSets[tip] :
            /\ c \notin AncestorSets[master]
            /\ old # 0 => c \notin AncestorSets[old]}

\* C13: validate_ticket builds the log with limit MAX_NEW_COMMITS + 1; the
\* comment gets the header 'Last 10 new commits:' and exactly 10 rows if and
\* only if the branch has more than 10 new commits; with 1 to 10 new commits
\* it gets the header 'New commits:' and one row for each of them; with no
\* new commit it is left as it was.
C13_HeaderAndTruncation ==
    [][Listed =>
         LET n == Cardinality(TicketNewCommits)
             listed == CommentRows(req'.comment)
         IN  /\ call'.limit = MAX_NEW_COMMITS + 1
             /\ (n > MAX_NEW_COMMITS) <=>
                   (/\ HasLine(req'.comment, LastHeader)
                    /\ Len(listed) = MAX_NEW_COMMITS)
             /\ (1 <= n /\ n <= MAX_NEW_COMMITS) =>
                   (/\ HasLine(req'.comment, NewHeader)
                    /\ ~HasLine(req'.comment, LastHeader)
                    /\ Len(listed) = n
                    /\ Range(listed) = TicketNewCommits)
             /\ n = 0 => req'.comment = req.comment]_vars

\* a branch with more than 10 new commits was listed under 'Last 10 new
\* commits:' with 10 rows
C13_Witness ==
    /\ tpc = "validated"
    /\ Len(table) = MAX_NEW_COMMITS + 1
    /\ HasLine(req.comment, LastHeader)
    /\ Len(CommentRows(req.comment)) = MAX_NEW_COMMITS

\* C14: validate_ticket leaves the comment of the request as it was when
\* the branch name does not resolve to a commit, when the commit it
\* resolves to is the old commit of the ticket, when the request is a
\* preview or has no ticket id, and when the walk of log_table raises.
C14_NothingNew ==
    [][(tpc = "validate" /\ tpc' = "validated") =>
         LET tip == LookupBranch(Strip(ticket.branch))
         IN  (\/ tip = 0
              \/ Hex(tip) = valid_commit(ticket.commit)
              \/ req.preview
              \/ ~req.id
              \/ call'.raised) => req'.comment = req.comment]_vars

\* a preview of a ticket whose branch resolved to another commit than the
\* old one has left the comment alone
C14_Witness ==
    /\ tpc = "validated"
    /\ req.preview /\ req.id
    /\ ticket.commit = Hex(branches[<<"a">>])
    /\ branches[<<"a">>] = 5 + MaxChain
    /\ req.comment # <<>>
    /\ ~call.called

\* C17: every row returned by log_table is a commit reachable from
\* new_commit that is neither a commit of the ignore list nor an ancestor of
\* one; the rows listed by validate_ticket are neither in develop nor in
\* the old commit of the ticket.
C17_IgnoreExcluded ==
    [][Logged =>
         /\ \A c \in Range(RowCommits(table')) :
              /\ c \in AncestorSets[GetCommit(call'.new_commit)]
              /\ \A b \in call'.ignore :
                    Resolve(b) # 0 => c \notin AncestorSets[Resolve(b)]
         /\ tpc = "validate" =>
              /\ MASTER_BRANCH \in call'.ignore
              /\ valid_commit(ticket.commit) # NoCommit
                    => valid_commit(ticket.commit) \in call'.ignore
              /\ Range(CommentRows(req'.comment)) \subseteq TicketNewCommits]_vars

\* validate_ticket has listed commits of a branch that contains a commit of
\* develop and the old commit of the ticket
C17_Witness ==
    /\ tpc = "validated"
    /\ table # <<>>
    /\ call.ignore = {MASTER_BRANCH, Hex(9)}
    /\ 9 \in AncestorSets[GetCommit(call.new_commit)]

\* C18: with more than 10 new commits the rows validate_ticket appends are
\* the 10 newest of them, from the oldest to the newest, the commit of the
\* branch being the last row.
C18_LastTenNewest ==
    [][(Listed /\ Cardinality(TicketNewCommits) > MAX_NEW_COMMITS) =>
         LET listed == CommentRows(req'.comment)
         IN  /\ Len(listed) = MAX_NEW_COMMITS
             /\ listed[Len(listed)] = LookupBranch(Strip(ticket.branch))
             /\ \A i, j \in 1 .. Len(listed) : i < j => listed[i] < listed[j]
             /\ \A c \in TicketNewCommits \ Range(listed) :
                   \A d \in Range(listed) : c < d]_vars

====
